---- MODULE Spec2Model ----
(***************************************************************************)
(* A model of h5parse.py, the JSON backend of hdf5-viewer: the metadata    *)
(* summarizer meta_dict and the six query methods of H5Instance, run       *)
(* against a read-only HDF5 file and numpy's process-wide print options.   *)
(*                                                                         *)
(* Texts (the results of Python's str()) are kept as a sequence of lines,  *)
(* each line a sequence of words: the words of a line are joined by one    *)
(* blank, the lines by a newline followed by one blank of indentation.      *)
(***************************************************************************)
EXTENDS Integers, Sequences

(* ------------------------------ bounds --------------------------------- *)

\* longest enumerated value vector of the dataset /data/x
MaxLen == 3
\* length of the "wide" vector: longer than one 45- or 75-column line
WideLen == 30
\* length of the "long" vector: more elements than numpy's default threshold
LongLen == 1001

(* --------------------- numpy / Python constants ------------------------ *)

\* numpy's default print options (np.get_printoptions() of a fresh process)
DefaultThreshold == 1000
DefaultLinewidth == 75
EdgeItems == 3
\* sys.maxsize (2^63 - 1) exceeds every size of the model; it is kept as the
\* largest integer TLC represents
MaxSize == 2147483647
\* linewidth set by get_attrs
AttrLinewidth == 45

(* ------------------------- small helpers ------------------------------- *)

Range(s) == {s[i] : i \in 1..Len(s)}

MaxOf(S) == CHOOSE m \in S : \A n \in S : n <= m

MinOf(S) == CHOOSE m \in S : \A n \in S : m <= n

RECURSIVE Pow10(_)
Pow10(k) == IF k = 0 THEN 1 ELSE 10 * Pow10(k - 1)

RECURSIVE NumDigits(_)
\* number of decimal digits of n >= 0
NumDigits(n) == IF n < 10 THEN 1 ELSE 1 + NumDigits(n \div 10)

DigitChars == <<"0", "1", "2", "3", "4", "5", "6", "7", "8", "9">>

RECURSIVE NatStr(_)
\* decimal text of n >= 0
NatStr(n) == IF n < 10 THEN DigitChars[n + 1]
             ELSE NatStr(n \div 10) \o DigitChars[(n % 10) + 1]

\* str(int)
IntStr(n) == IF n < 0 THEN "-" \o NatStr(-n) ELSE NatStr(n)

RECURSIVE Blanks(_)
Blanks(k) == IF k <= 0 THEN "" ELSE " " \o Blanks(k - 1)

\* s right-justified in a field of width w
PadLeft(s, w) == Blanks(w - Len(s)) \o s

RECURSIVE StripZeros(_)
\* n > 0 without its trailing decimal zeros
StripZeros(n) == IF n % 10 = 0 THEN StripZeros(n \div 10) ELSE n

(* ---------------- format(value, '.<p>g') on integral values ------------ *)

\* the p-digit mantissa of n > 0 (n has more than p digits), rounded half to even
RoundSig(n, p) ==
    LET unit == Pow10(NumDigits(n) - p)
        q    == n \div unit
        r    == n % unit
    IN  IF 2 * r > unit \/ (2 * r = unit /\ q % 2 = 1) THEN q + 1 ELSE q

\* mantissa text "d.ddd" of a p-digit mantissa m, trailing zeros removed
MantissaStr(m) ==
    LET s == NatStr(StripZeros(m))
    IN  IF Len(s) = 1 THEN s ELSE SubSeq(s, 1, 1) \o "." \o SubSeq(s, 2, Len(s))

\* exponent text: sign and at least two digits
ExpStr(x) == "e+" \o (IF x < 10 THEN "0" ELSE "") \o NatStr(x)

\* '%.<p>g' of n >= 0
FormatGNat(n, p) ==
    IF n = 0 THEN "0"
    ELSE IF NumDigits(n) <= p THEN NatStr(n)
    ELSE LET m == RoundSig(n, p)
             x == NumDigits(n) - 1
         IN  IF m = Pow10(p) THEN MantissaStr(Pow10(p - 1)) \o ExpStr(x + 1)
             ELSE MantissaStr(m) \o ExpStr(x)

\* '%.<p>g' of an integral value n
FormatG(n, p) == IF n < 0 THEN "-" \o FormatGNat(-n, p) ELSE FormatGNat(n, p)

(* --------------------- values held by the file ------------------------- *)

\* one element of a value payload
Num(n) == [k |-> "num", a |-> n, b |-> 0, s |-> ""]

NaN == [k |-> "nan", a |-> 0, b |-> 0, s |-> ""]

\* an element of a compound (structured) dtype with two integer members
Pair(m, n) == [k |-> "pair", a |-> m, b |-> n, s |-> ""]

\* a variable-length string element (h5py hands these out as bytes objects)
Bytes(t) == [k |-> "bytes", a |-> 0, b |-> 0, s |-> t]

CompoundDtype == "[('a', '<i8'), ('b', '<i8')]"

\* what obj[()] and obj.attrs[...] hand out: a numpy array, a numpy scalar, a
\* Python bytes or str object, or h5py.Empty (null dataspace, shape None)
NdArray(dt, vs) == [cls |-> "ndarray", dtype |-> dt, shape |-> <<Len(vs)>>, vals |-> vs]

NpScalar(dt, v) == [cls |-> "npscalar", dtype |-> dt, shape |-> <<>>, vals |-> <<v>>]

PyBytes(t) == [cls |-> "bytes", dtype |-> "", shape |-> <<>>, vals |-> <<Bytes(t)>>]

PyStr(t) == [cls |-> "str", dtype |-> "", shape |-> <<>>, vals |-> <<Bytes(t)>>]

H5Empty(dt) == [cls |-> "empty", dtype |-> dt, shape |-> <<>>, vals |-> <<>>]

\* hasattr(data, "dtype"), hasattr(data, "shape")
HasDtypeAttr(data) == data.cls \in {"ndarray", "npscalar", "empty"}

HasShapeAttr(data) == data.cls \in {"ndarray", "npscalar", "empty"}

\* data.shape is None
ShapeIsNone(data) == data.cls = "empty"

(* ------------------------------ str() ---------------------------------- *)

\* str(tuple of ints)
RECURSIVE TupleItems(_)
TupleItems(t) == IF Len(t) = 0 THEN ""
                 ELSE IF Len(t) = 1 THEN NatStr(t[1])
                 ELSE NatStr(t[1]) \o ", " \o TupleItems(Tail(t))

StrTuple(t) == IF Len(t) = 1 THEN "(" \o NatStr(t[1]) \o ",)"
               ELSE "(" \o TupleItems(t) \o ")"

\* str(list of str)
RECURSIVE ListItems(_)
ListItems(l) == IF Len(l) = 0 THEN ""
                ELSE IF Len(l) = 1 THEN "'" \o l[1] \o "'"
                ELSE "'" \o l[1] \o "', " \o ListItems(Tail(l))

StrList(l) == <<  <<"[" \o ListItems(l) \o "]">>  >>

\* the text of one array element before padding
ElemWord(dt, e) ==
    IF e.k = "nan" THEN "nan"
    ELSE IF e.k = "pair" THEN "(" \o IntStr(e.a) \o ", " \o IntStr(e.b) \o ")"
    ELSE IF e.k = "bytes" THEN "b'" \o e.s \o "'"
    ELSE IF dt = "float64" THEN IntStr(e.a) \o "."
    ELSE IntStr(e.a)

\* str(numpy scalar): the shortest repr of the value
ScalarWord(dt, e) ==
    IF e.k = "nan" THEN "nan"
    ELSE IF dt = "float64" THEN IntStr(e.a) \o ".0"
    ELSE IntStr(e.a)

RECURSIVE LineLen(_)
\* length of a line under construction: the indentation, then each word and
\* the separator after it
LineLen(line) == IF Len(line) = 0 THEN 1
                 ELSE Len(line[1]) + 1 + LineLen(Tail(line))

RECURSIVE ExtendLine(_, _, _, _, _)
\* numpy's _extendLine over words[i..]: a word that does not fit the line
\* starts a new one, unless the line is still empty
ExtendLine(words, i, done, line, linewidth) ==
    IF i > Len(words) THEN Append(done, line)
    ELSE LET needsWrap == /\ LineLen(line) + Len(words[i]) > linewidth - 1
                          /\ Len(line) > 0
         IN  IF needsWrap
             THEN ExtendLine(words, i + 1, Append(done, line), <<words[i]>>, linewidth)
             ELSE ExtendLine(words, i + 1, done, Append(line, words[i]), linewidth)

\* the same wrapping for n words of one common width w, in closed form
WrapUniform(words, w, linewidth) ==
    LET n     == Len(words)
        fit   == (linewidth - 1) \div (w + 1)
        per   == IF fit < 1 THEN 1 ELSE fit
        nline == (n + per - 1) \div per
    IN  [j \in 1..nline |->
            [i \in 1..(IF j * per <= n THEN per ELSE n - (j - 1) * per) |->
                words[(j - 1) * per + i]]]

\* the enclosing brackets of an array text
Bracket(lines) ==
    LET nl == Len(lines)
    IN  [j \in 1..nl |->
            [i \in 1..Len(lines[j]) |->
                (IF j = 1 /\ i = 1 THEN "[" ELSE "") \o lines[j][i]
                \o (IF j = nl /\ i = Len(lines[j]) THEN "]" ELSE "")]]

\* numpy's array2string of a one-dimensional array under the print options po
Array2String(data, po) ==
    LET n       == Len(data.vals)
        summary == n > po.threshold /\ 2 * EdgeItems < n
        shown   == IF summary THEN (1..EdgeItems) \cup ((n - EdgeItems + 1)..n)
                   ELSE 1..n
        w       == MaxOf({Len(ElemWord(data.dtype, data.vals[i])) : i \in shown})
        word(i) == IF data.dtype = "object" THEN ElemWord(data.dtype, data.vals[i])
                   ELSE PadLeft(ElemWord(data.dtype, data.vals[i]), w)
    IN  IF n = 0 THEN << <<"[]">> >>
        ELSE IF summary
        THEN Bracket(ExtendLine(
                 [i \in 1..(2 * EdgeItems + 1) |->
                     IF i <= EdgeItems THEN word(i)
                     ELSE IF i = EdgeItems + 1 THEN "..."
                     ELSE word(n - 2 * EdgeItems - 1 + i)],
                 1, <<>>, <<>>, po.linewidth))
        ELSE Bracket(WrapUniform([i \in 1..n |-> word(i)], w, po.linewidth))

\* Python's str() of a value under the print options po
Str(data, po) ==
    IF data.cls = "str" THEN << <<data.vals[1].s>> >>
    ELSE IF data.cls = "bytes" THEN << <<"b'" \o data.vals[1].s \o "'">> >>
    ELSE IF data.cls = "empty"
    THEN << <<"Empty(dtype=dtype('" \o data.dtype \o "'))">> >>
    ELSE IF data.cls = "npscalar"
    THEN << <<ScalarWord(data.dtype, data.vals[1])>> >>
    ELSE Array2String(data, po)

(* --------------------------- the HDF5 file ----------------------------- *)

\* objects of the file (h5py.Group, h5py.Dataset, h5py.Datatype); None is
\* what Group.items() yields for a link that does not resolve
Group(path, names, ats) ==
    [kind |-> "group", name |-> path, children |-> names,
     data |-> H5Empty(""), attrs |-> ats]

Dataset(path, payload, ats) ==
    [kind |-> "dataset", name |-> path, children |-> <<>>,
     data |-> payload, attrs |-> ats]

Datatype(path) ==
    [kind |-> "datatype", name |-> path, children |-> <<>>,
     data |-> H5Empty(""), attrs |-> <<>>]

None ==
    [kind |-> "none", name |-> "", children |-> <<>>,
     data |-> H5Empty(""), attrs |-> <<>>]

ChildPath(parent, cname) ==
    IF parent = "/" THEN "/" \o cname ELSE parent \o "/" \o cname

\* field in self.instance
Contains(f, field) == field \in DOMAIN f

\* isinstance(obj, h5py.Group), isinstance(obj, h5py.Dataset)
IsGroupObj(obj) == obj.kind = "group"

IsDatasetObj(obj) == obj.kind = "dataset"

\* obj.items(): the (name, object) pairs of a group in link order
Items(f, obj) ==
    [i \in 1..Len(obj.children) |->
        LET cpath == ChildPath(obj.name, obj.children[i])
        IN  [cname |-> obj.children[i],
             cobj  |-> IF cpath \in DOMAIN f THEN f[cpath] ELSE None]]

\* list(obj.keys())
Keys(obj) == obj.children

(* ------------------------- results of a call --------------------------- *)

NoError == [cls |-> "", msg |-> ""]

\* what a call did on the way: meta_dict(obj) was entered, the payload of a
\* dataset was read (obj[()])
Described(obj) == [ev |-> "meta_dict", name |-> obj.name]

Read(obj) == [ev |-> "read", name |-> obj.name]

\* a call that returned v, having done `log` and leaving the print options po
Return(v, log, po) ==
    [ok |-> TRUE, val |-> v, err |-> NoError, log |-> log, po |-> po]

\* a call that raised
Raise(cls, msg, log, po) ==
    [ok |-> FALSE, val |-> <<>>, err |-> [cls |-> cls, msg |-> msg],
     log |-> log, po |-> po]

\* self.instance[field] on a path that is not in the file
KeyError(po) == Raise("KeyError", "", <<>>, po)

(* ----------------------------- meta_dict ------------------------------- *)

\* np.nanmin / np.nanmax raise on a dtype that has no ordering
NanReduceRaises(datavec) == \E i \in 1..Len(datavec) : datavec[i].k \notin {"num", "nan"}

\* np.min in place of np.nanmin: a NaN anywhere makes the minimum NaN
NanMin_propagating(datavec) ==
    IF \E i \in 1..Len(datavec) : datavec[i].k = "nan" THEN NaN
    ELSE Num(MinOf({datavec[i].a : i \in 1..Len(datavec)}))

\* np.nanmin: the least element that is not NaN; NaN when there is none
NanMin(datavec) ==
    LET nums == {datavec[i].a : i \in {j \in 1..Len(datavec) : datavec[j].k = "num"}}
    IN  IF nums = {} THEN NaN ELSE Num(MinOf(nums))

\* np.nanmax
NanMax(datavec) ==
    LET nums == {datavec[i].a : i \in {j \in 1..Len(datavec) : datavec[j].k = "num"}}
    IN  IF nums = {} THEN NaN ELSE Num(MaxOf(nums))

\* np.isnan
IsNan(v) == v.k = "nan"

\* str(datavec[0])
StrElem(dt, e) == IF e.k \in {"num", "nan"} THEN ScalarWord(dt, e) ELSE ElemWord(dt, e)

\* the fallback of the except branch left out: a failure leaves range empty
DataRange_swallow(dt, datavec) ==
    IF NanReduceRaises(datavec) THEN ""
    ELSE LET datamin == NanMin(datavec)
             datamax == NanMax(datavec)
         IN  IF IsNan(datamin) THEN "nan"
             ELSE IF datamin = datamax THEN FormatG(datamin.a, 4)
             ELSE FormatG(datamin.a, 3) \o ":" \o FormatG(datamax.a, 3)

\* the range of a non-empty value vector
DataRange(dt, datavec) ==
    IF NanReduceRaises(datavec) THEN StrElem(dt, datavec[1])
    ELSE LET datamin == NanMin(datavec)
             datamax == NanMax(datavec)
         IN  IF IsNan(datamin) THEN "nan"
             ELSE IF datamin = datamax THEN FormatG(datamin.a, 4)
             ELSE FormatG(datamin.a, 3) \o ":" \o FormatG(datamax.a, 3)

\* 'range' stored only when one was computed
DatasetMeta_norange(obj) ==
    LET data  == obj.data
        dtype == IF HasDtypeAttr(data) THEN data.dtype ELSE "object"
        flat  == HasShapeAttr(data) /\ ~ShapeIsNone(data) /\ dtype # "object"
        shape == IF flat /\ Len(data.shape) > 0 THEN StrTuple(data.shape)
                 ELSE "scalar"
    IN  IF flat /\ Len(data.vals) > 0
        THEN [type |-> "dataset", name |-> obj.name, shape |-> shape,
              range |-> DataRange(dtype, data.vals), dtype |-> dtype]
        ELSE [type |-> "dataset", name |-> obj.name, shape |-> shape,
              dtype |-> dtype]

\* the dataset branch of meta_dict
DatasetMeta(obj) ==
    LET data    == obj.data
        dtype   == IF HasDtypeAttr(data) THEN data.dtype ELSE "object"
        flat    == HasShapeAttr(data) /\ ~ShapeIsNone(data) /\ dtype # "object"
        datavec == data.vals
        shape   == IF flat /\ Len(data.shape) > 0 THEN StrTuple(data.shape)
                   ELSE "scalar"
        range   == IF flat /\ Len(datavec) > 0 THEN DataRange(dtype, datavec)
                   ELSE ""
    IN  [type |-> "dataset", name |-> obj.name, shape |-> shape,
         range |-> range, dtype |-> dtype]

meta_dict(obj, po) ==
    IF IsGroupObj(obj)
    THEN Return([type |-> "group", name |-> obj.name], <<Described(obj)>>, po)
    ELSE IF IsDatasetObj(obj)
    THEN Return(DatasetMeta(obj), <<Described(obj), Read(obj)>>, po)
    ELSE Raise("Exception", "'" \o obj.name \o "' is not a dataset or group",
               <<Described(obj)>>, po)

(* ----------------------------- H5Instance ------------------------------ *)

is_field(f, field, po) == Return([return |-> Contains(f, field)], <<>>, po)

\* true_or_false taken from is_field: every existing path counts as a group
is_group_any(f, field, po) == Return([return |-> Contains(f, field)], <<>>, po)

is_group(f, field, po) ==
    IF is_field(f, field, po).val.return
    THEN IF IsGroupObj(f[field]) THEN Return([return |-> TRUE], <<>>, po)
         ELSE Return([return |-> FALSE], <<>>, po)
    ELSE Return([return |-> FALSE], <<>>, po)

\* the descriptor get_fields stores for one (cname, cobj) pair
FieldMeta(item, po) ==
    IF item.cobj.kind # "none" THEN meta_dict(item.cobj, po)
    ELSE Return([type |-> "other", name |-> item.cname], <<>>, po)

RECURSIVE FieldLoop(_, _, _, _, _)
\* the loop of get_fields from item i on, with the fields and the log so far
FieldLoop(items, i, fields, log, po) ==
    IF i > Len(items) THEN Return(fields, log, po)
    ELSE LET m == FieldMeta(items[i], po)
         IN  IF ~m.ok THEN Raise(m.err.cls, m.err.msg, log \o m.log, po)
             ELSE FieldLoop(items, i + 1,
                            Append(fields, [key |-> items[i].cname, val |-> m.val]),
                            log \o m.log, po)

get_fields(f, root, po) ==
    IF ~is_group(f, root, po).val.return
    THEN Raise("Exception", "'" \o root \o "' is not a group", <<>>, po)
    ELSE FieldLoop(Items(f, f[root]), 1, <<>>, <<>>, po)

\* str(obj) in place of str(obj[()]): the text of the handle, not of the values
preview_field_handle(f, field, po) ==
    IF ~Contains(f, field) THEN KeyError(po)
    ELSE LET obj  == f[field]
             meta == meta_dict(obj, po)
         IN  IF ~meta.ok THEN meta
             ELSE IF IsGroupObj(obj)
             THEN Return([d \in DOMAIN meta.val \cup {"data"} |->
                             IF d = "data" THEN StrList(Keys(obj)) ELSE meta.val[d]],
                         meta.log, po)
             ELSE Return([d \in DOMAIN meta.val \cup {"data"} |->
                             IF d = "data" THEN << <<"<HDF5", "dataset>">> >>
                             ELSE meta.val[d]],
                         meta.log, po)

preview_field(f, field, po) ==
    IF ~Contains(f, field) THEN KeyError(po)
    ELSE LET obj  == f[field]
             meta == meta_dict(obj, po)
         IN  IF ~meta.ok THEN meta
             ELSE IF IsGroupObj(obj)
             THEN Return([d \in DOMAIN meta.val \cup {"data"} |->
                             IF d = "data" THEN StrList(Keys(obj)) ELSE meta.val[d]],
                         meta.log, po)
             ELSE Return([d \in DOMAIN meta.val \cup {"data"} |->
                             IF d = "data" THEN Str(obj.data, po) ELSE meta.val[d]],
                         meta.log \o <<Read(obj)>>, po)

\* np.set_printoptions(threshold=sys.maxsize, linewidth=sys.maxsize)
ReadPrintOptions(po) == [threshold |-> MaxSize, linewidth |-> MaxSize]

\* meta_dict called before the isinstance check
read_dataset_late_check(f, field, po) ==
    IF ~Contains(f, field) THEN KeyError(po)
    ELSE LET obj  == f[field]
             meta == meta_dict(obj, po)
             po2  == ReadPrintOptions(po)
         IN  IF ~IsDatasetObj(obj)
             THEN Raise("Exception", "Argument to --read-dataset must be a Dataset.",
                        meta.log, po)
             ELSE Return([d \in DOMAIN meta.val \cup {"data"} |->
                             IF d = "data" THEN Str(obj.data, po2) ELSE meta.val[d]],
                         meta.log \o <<Read(obj)>>, po2)

read_dataset(f, field, po) ==
    IF ~Contains(f, field) THEN KeyError(po)
    ELSE LET obj == f[field]
         IN  IF ~IsDatasetObj(obj)
             THEN Raise("Exception", "Argument to --read-dataset must be a Dataset.",
                        <<>>, po)
             ELSE LET meta == meta_dict(obj, po)
                      po2  == ReadPrintOptions(po)
                  IN  Return([d \in DOMAIN meta.val \cup {"data"} |->
                                 IF d = "data" THEN Str(obj.data, po2) ELSE meta.val[d]],
                             meta.log \o <<Read(obj)>>, po2)

\* np.set_printoptions(linewidth=45)
AttrPrintOptions(po) == [po EXCEPT !.linewidth = AttrLinewidth]

\* the is_field guard left out: the lookup itself fails on a missing path
get_attrs_unguarded(f, root, po) ==
    IF ~Contains(f, root) THEN KeyError(po)
    ELSE LET obj == f[root]
             po2 == AttrPrintOptions(po)
         IN  Return([i \in 1..Len(obj.attrs) |->
                        [key |-> obj.attrs[i].key, val |-> Str(obj.attrs[i].val, po2)]],
                    <<>>, po2)

get_attrs(f, root, po) ==
    IF ~is_field(f, root, po).val.return
    THEN Raise("Exception", "Argument to --get-attrs must be a Group or Dataset.",
               <<>>, po)
    ELSE LET obj == f[root]
             po2 == AttrPrintOptions(po)
         IN  Return([i \in 1..Len(obj.attrs) |->
                        [key |-> obj.attrs[i].key, val |-> Str(obj.attrs[i].val, po2)]],
                    <<>>, po2)

(* ------------------------ the files of the model ----------------------- *)

SeqsUpTo(S, n) == UNION {[1..k -> S] : k \in 0..n}

FloatVals == {NaN, Num(-20), Num(0), Num(9995)}

IntVals == {Num(1235), Num(12345)}

NumericPayloads ==
    {NdArray("float64", v) : v \in SeqsUpTo(FloatVals, MaxLen)}
    \cup {NdArray("int64", v) : v \in SeqsUpTo(IntVals, MaxLen)}
    \cup {NpScalar("float64", v) : v \in FloatVals}
    \cup {NpScalar("int64", v) : v \in IntVals}

OtherPayloads ==
    {PyBytes("abc"), H5Empty("float64"),
     NdArray("object", <<>>), NdArray("object", <<Bytes("ab"), Bytes("cd")>>),
     NdArray(CompoundDtype, <<>>), NdArray(CompoundDtype, <<Pair(2, 3)>>),
     NdArray(CompoundDtype, <<Pair(2, 3), Pair(1, 5)>>)}

BigPayloads ==
    {NdArray("float64", [i \in 1..WideLen |-> Num(30)]),
     NdArray("int64", [i \in 1..LongLen |-> Num(7)])}

Payloads == NumericPayloads \cup OtherPayloads \cup BigPayloads

\* the links of the group /data: plain, with a dangling soft link, with a
\* committed datatype
Layouts == {<<"x", "sub">>, <<"x", "broken", "sub">>, <<"x", "t", "sub">>}

XAttrs == << [key |-> "units", val |-> PyStr("m")],
             [key |-> "axis", val |-> NdArray("int64", [i \in 1..WideLen |-> Num(7)])] >>

MkFile(layout, payload) ==
    LET paths == {"/", "/data", "/data/x", "/data/sub", "/data/sub/y"}
                 \cup (IF "t" \in Range(layout) THEN {"/data/t"} ELSE {})
    IN  [p \in paths |->
            IF p = "/" THEN Group("/", <<"data">>, <<>>)
            ELSE IF p = "/data"
            THEN Group("/data", layout, << [key |-> "title", val |-> PyStr("run")] >>)
            ELSE IF p = "/data/x" THEN Dataset("/data/x", payload, XAttrs)
            ELSE IF p = "/data/sub" THEN Group("/data/sub", <<"y">>, <<>>)
            ELSE IF p = "/data/sub/y"
            THEN Dataset("/data/sub/y", NpScalar("float64", Num(9995)), <<>>)
            ELSE Datatype(p)]

DefaultPayload == NdArray("float64", <<Num(-20), NaN, Num(9995)>>)

Files == {MkFile(l, DefaultPayload) : l \in Layouts}
         \cup {MkFile(<<"x", "sub">>, p) : p \in Payloads}

\* the path arguments of the queries
Fields == {"/", "/data", "/data/x", "/data/sub", "/data/sub/y", "/data/t",
           "/data/broken", "/nope"}

(* --------------------------- the state machine ------------------------- *)

VARIABLES
    file,          \* the open h5py.File of the H5Instance (read-only)
    printoptions,  \* numpy's process-wide print options
    call,          \* the last query: its method and path argument
    ret            \* what the last query returned or raised

vars == <<file, printoptions, call, ret>>

DefaultPrintOptions == [threshold |-> DefaultThreshold, linewidth |-> DefaultLinewidth]

Init ==
    /\ file \in Files
    /\ printoptions = DefaultPrintOptions
    /\ call = [op |-> "__init__", field |-> ""]
    /\ ret = Return(<<>>, <<>>, DefaultPrintOptions)

\* one query: the outcome is recorded and the print options it leaves stay
Query(op, field, out) ==
    /\ call' = [op |-> op, field |-> field]
    /\ ret' = out
    /\ printoptions' = out.po
    /\ UNCHANGED file

IsField == \E field \in Fields :
    Query("is_field", field, is_field(file, field, printoptions))

IsGroup == \E field \in Fields :
    Query("is_group", field, is_group(file, field, printoptions))

GetFields == \E root \in Fields :
    Query("get_fields", root, get_fields(file, root, printoptions))

GetAttrs == \E root \in Fields :
    Query("get_attrs", root, get_attrs(file, root, printoptions))

PreviewField == \E field \in Fields :
    Query("preview_field", field, preview_field(file, field, printoptions))

ReadDataset == \E field \in Fields :
    Query("read_dataset", field, read_dataset(file, field, printoptions))

Next ==
    \/ IsField
    \/ IsGroup
    \/ GetFields
    \/ GetAttrs
    \/ PreviewField
    \/ ReadDataset

Spec == Init /\ [][Next]_vars

(* ------------------------------ properties ----------------------------- *)

\* the real kind of the object at a path of the file
KindOf(path) == IF path \in DOMAIN file THEN file[path].kind ELSE "absent"

\* the descriptor type that belongs to a kind
TypeOfKind(kind) == IF kind \in {"group", "dataset"} THEN kind ELSE "other"

\* the descriptors the last query returned, each with the path it describes
Returned ==
    IF ~ret.ok THEN {}
    ELSE IF call.op \in {"preview_field", "read_dataset"}
    THEN {[path |-> call.field, d |-> ret.val]}
    ELSE IF call.op = "get_fields"
    THEN {[path |-> ChildPath(call.field, ret.val[i].key), d |-> ret.val[i].val] :
             i \in 1..Len(ret.val)}
    ELSE {}

\* what a query shows its caller
Visible(out) == [ok |-> out.ok, val |-> out.val, err |-> out.err]

\* the query (op, field) on file f under the print options po
Answer(op, f, field, po) ==
    CASE op = "is_field" -> is_field(f, field, po)
      [] op = "is_group" -> is_group(f, field, po)
      [] op = "get_fields" -> get_fields(f, field, po)
      [] op = "get_attrs" -> get_attrs(f, field, po)
      [] op = "preview_field" -> preview_field(f, field, po)
      [] op = "read_dataset" -> read_dataset(f, field, po)

\* C1: get_fields on a path that resolves to a Group returns a mapping whose
\* keys are exactly the group's direct child names, one descriptor per child,
\* each typed by the child's real kind ('other' for a child that does not
\* resolve).
C1_ListFieldsExact ==
    (call.op = "get_fields" /\ KindOf(call.field) = "group") =>
        /\ ret.ok
        /\ [i \in 1..Len(ret.val) |-> ret.val[i].key] = file[call.field].children
        /\ \A i \in 1..Len(ret.val) :
              ret.val[i].val.type
                  = TypeOfKind(KindOf(ChildPath(call.field, ret.val[i].key)))

\* C2: get_fields on a Group never fails because of a child: every child that
\* is neither a Group nor a Dataset gets the placeholder {type: 'other', name},
\* and every sibling still gets its descriptor.
C2_ListFieldsNeverFails ==
    (call.op = "get_fields" /\ KindOf(call.field) = "group") =>
        LET names == file[call.field].children
        IN  /\ ret.ok
            /\ Len(ret.val) = Len(names)
            /\ \A i \in 1..Len(names) :
                  KindOf(ChildPath(call.field, names[i])) \notin {"group", "dataset"}
                      => ret.val[i] = [key |-> names[i],
                                       val |-> [type |-> "other", name |-> names[i]]]

C5_WrongKind ==
    /\ (call.op = "read_dataset" /\ KindOf(call.field) = "group") =>
          /\ ~ret.ok
          /\ ret.err = [cls |-> "Exception",
                        msg |-> "Argument to --read-dataset must be a Dataset."]
          /\ ret.log = <<>>
    /\ (call.op = "get_fields" /\ KindOf(call.field) = "dataset") =>
          /\ ~ret.ok
          /\ ret.err = [cls |-> "Exception",
                        msg |-> "'" \o call.field \o "' is not a group"]
          /\ ret.log = <<>>

C5_Witness ==
    /\ call.op = "read_dataset"
    /\ KindOf(call.field) = "group"
    /\ ~ret.ok
    /\ ret.log = <<>>

\* a payload of numeric dtype with at least one element
NumericNonEmpty(data) ==
    /\ data.cls \in {"ndarray", "npscalar"}
    /\ data.dtype \in {"float64", "int64"}
    /\ Len(data.vals) > 0

\* the elements of a payload that are not NaN
NonNan(data) == {data.vals[i].a : i \in {j \in 1..Len(data.vals) : data.vals[j].k = "num"}}

\* C6: for a non-empty dataset of numeric dtype, with min and max taken over
\* the elements that are not NaN: range is 'nan' when every element is NaN,
\* the single value to 4 significant digits when min = max, and 'min:max' to
\* 3 significant digits each otherwise; a mix of NaN and numbers never gives
\* 'nan'.
C6_RangeRules ==
    \A r \in Returned :
        (r.d.type = "dataset" /\ NumericNonEmpty(file[r.path].data)) =>
            LET nn == NonNan(file[r.path].data)
            IN  /\ nn = {} => r.d.range = "nan"
                /\ (nn # {} /\ MinOf(nn) = MaxOf(nn)) => r.d.range = FormatG(MinOf(nn), 4)
                /\ (nn # {} /\ MinOf(nn) # MaxOf(nn)) =>
                      r.d.range = FormatG(MinOf(nn), 3) \o ":" \o FormatG(MaxOf(nn), 3)
                /\ nn # {} => r.d.range # "nan"

C6_Witness ==
    /\ call.op = "preview_field"
    /\ call.field = "/data/x"
    /\ ret.ok
    /\ file["/data/x"].data.vals = <<NaN, Num(9995), Num(-20)>>
    /\ ret.val.range = "-20:1e+04"

\* C7 as stated: range is the empty string for every dataset of empty
\* extent, for every dataset of non-numeric dtype, and when min/max cannot be
\* computed.
C7_RangeEmptyWhenNotComputable ==
    \A r \in Returned :
        (r.d.type = "dataset" /\ ~NumericNonEmpty(file[r.path].data)) =>
            r.d.range = ""

\* C7 amended: range is the empty string for every dataset of empty extent
\* and for every dataset whose payload is of object dtype or has no dtype or
\* shape; for a non-empty payload of another dtype on which min/max raise,
\* range is the text of the payload's first element.
C7_RangeEmptyOrFirst ==
    \A r \in Returned :
        r.d.type = "dataset" =>
            LET data == file[r.path].data
            IN  /\ (\/ Len(data.vals) = 0
                    \/ data.cls \in {"bytes", "empty"}
                    \/ data.dtype = "object") => r.d.range = ""
                /\ (/\ data.cls = "ndarray"
                    /\ data.dtype = CompoundDtype
                    /\ Len(data.vals) > 0) =>
                      r.d.range = "(" \o IntStr(data.vals[1].a) \o ", "
                                  \o IntStr(data.vals[1].b) \o ")"

C7_Witness ==
    /\ call.op = "get_fields"
    /\ call.field = "/data"
    /\ ret.ok
    /\ ret.val[1].val.dtype = CompoundDtype
    /\ ret.val[1].val.range = "(2, 3)"

\* C8: every descriptor returned by get_fields, preview_field or
\* read_dataset has a name and a type among group, dataset and other; the
\* type follows from the kind of the object at the path alone; shape, dtype
\* and range are all present on a dataset descriptor and all absent otherwise.
C8_DescriptorShape ==
    \A r \in Returned :
        /\ r.d.type \in {"group", "dataset", "other"}
        /\ "name" \in DOMAIN r.d
        /\ r.d.type = TypeOfKind(KindOf(r.path))
        /\ r.d.type = "dataset" => {"shape", "dtype", "range"} \subseteq DOMAIN r.d
        /\ r.d.type # "dataset" => {"shape", "dtype", "range"} \cap DOMAIN r.d = {}

C8_Witness ==
    /\ call.op = "get_fields"
    /\ ret.ok
    /\ \E i, j, k \in 1..Len(ret.val) :
          /\ ret.val[i].val.type = "other"
          /\ ret.val[j].val.type = "dataset"
          /\ ret.val[k].val.type = "group"

\* a record without its 'data' field
WithoutData(rec) == [d \in DOMAIN rec \ {"data"} |-> rec[d]]

C10_NoObservableState ==
    call.op # "__init__" =>
        Visible(ret) = Visible(Answer(call.op, file, call.field, DefaultPrintOptions))

====
